---- MODULE Spec2Model ----
(***************************************************************************)
(* mini.q, src/bvh.cpp: the n log(n) BVH compiler (injection, the SAH      *)
(* sweep, the iterative driver with its explicit work stack, node and leaf *)
(* emission, box inflation) and the create/destroy entry points.           *)
(*                                                                         *)
(* Coordinates are integers, so every cost the sweep computes is exact and *)
(* finite; FLT_MAX is an integer larger than every cost of the model.      *)
(* Arrays keep the code's 0-based indices (functions over 0..n-1).         *)
(***************************************************************************)
EXTENDS Integers, Sequences, FiniteSets

\* ---------------------------------------------------------------- bounds
\* soups of up to MaxN primitives are drawn freely from Catalog
MaxN == 4
\* cluster soups (one far triangle, the others coincident) have up to
\* MaxCluster primitives
MaxCluster == 6

\* ------------------------------------------------------ program constants
FLT_MAX == 1000000
ONLEFT == 0
ONRIGHT == 1
OTHERAXISNUM == 2
STACKCAP == 64
MAXPRIMITIVENUM_MIN == 1
MAXPRIMITIVENUM_DEFAULT == 8
MAXPRIMITIVENUM_MAX == 16
SAHCOST_MIN == 1
SAHCOST_DEFAULT == 4
SAHCOST_MAX == 16

Sides == {ONLEFT, ONRIGHT}
Axes == {0, 1, 2}

\* values the console may give the three build options (all inside the
\* VAR ranges)
MaxPrimValues == {MAXPRIMITIVENUM_MIN, 2, MAXPRIMITIVENUM_DEFAULT}
IsectValues == {SAHCOST_MIN, SAHCOST_DEFAULT}
TravValues == {SAHCOST_MIN, SAHCOST_DEFAULT, SAHCOST_MAX}

\* ------------------------------------------------------------ primitives
\* a vec3f is a 3-tuple; axis a of the code is component a+1
Vec(x, y, z) == <<x, y, z>>

\* a unit triangle with its right angle at (x,y,z), in the plane z
Tri(x, y, z) ==
  [type |-> "TRI", v |-> <<Vec(x, y, z), Vec(x + 1, y, z), Vec(x, y + 1, z)>>]

\* a sub-intersector: v[0], v[1] are the corners of its box
Isec(lo, hi) == [type |-> "INTERSECTOR", v |-> <<lo, hi, hi>>]

Catalog ==
  { Tri(0, 0, 0), Tri(4, 0, 0), Tri(0, 1, 5),
    Isec(Vec(1, 1, 1), Vec(3, 2, 2)) }

RECURSIVE SeqsOf(_, _)
SeqsOf(S, k) ==
  IF k = 0 THEN {<<>>}
  ELSE {Append(s, x) : s \in SeqsOf(S, k - 1), x \in S}

\* one far triangle followed by k-1 coincident ones; with five of them,
\* sahintersectioncost 1 and sahtraversalcost 4 the leaf costs as much as
\* the best split (5*5 = 5 + 4*5)
ClusterSoup(k) == [i \in 1..k |-> IF i = 1 THEN Tri(4, 0, 0) ELSE Tri(0, 0, 0)]

Soups ==
  UNION {SeqsOf(Catalog, k) : k \in 0..MaxN}
    \cup {ClusterSoup(k) : k \in (MaxN + 1)..MaxCluster}

\* ------------------------------------------------------------------ aabb
Min(a, b) == IF a < b THEN a ELSE b
Max(a, b) == IF a > b THEN a ELSE b

aabb(lo, hi) == [pmin |-> lo, pmax |-> hi]

\* aabb(FLT_MAX, -FLT_MAX)
EmptyBox ==
  aabb(Vec(FLT_MAX, FLT_MAX, FLT_MAX), Vec(-FLT_MAX, -FLT_MAX, -FLT_MAX))

\* aabb::compose: the union of two boxes
compose(a, b) ==
  aabb(Vec(Min(a.pmin[1], b.pmin[1]), Min(a.pmin[2], b.pmin[2]),
           Min(a.pmin[3], b.pmin[3])),
       Vec(Max(a.pmax[1], b.pmax[1]), Max(a.pmax[2], b.pmax[2]),
           Max(a.pmax[3], b.pmax[3])))

\* aabb::halfarea: dx*dy + dy*dz + dz*dx of the extents
halfarea(b) ==
  LET e == Vec(b.pmax[1] - b.pmin[1], b.pmax[2] - b.pmin[2],
               b.pmax[3] - b.pmin[3])
  IN e[1] * e[2] + e[2] * e[3] + e[3] * e[1]

\* primitive::getaabb
getaabb(h) ==
  IF h.type = "TRI"
  THEN compose(compose(aabb(h.v[1], h.v[1]), aabb(h.v[2], h.v[2])),
               aabb(h.v[3], h.v[3]))
  ELSE aabb(h.v[1], h.v[2])

\* centroid(h), scaled by 6 to stay in the integers: 1/3*(v0+v1+v2) for a
\* triangle, (v0+v1)/2 otherwise
centroid(h) ==
  LET c(i) == IF h.type = "TRI"
              THEN 2 * (h.v[1][i] + h.v[2][i] + h.v[3][i])
              ELSE 3 * (h.v[1][i] + h.v[2][i])
  IN Vec(c(1), c(2), c(3))

\* sorter<axis>::operator()
sorter(centroids, axis, a, b) == centroids[a][axis + 1] < centroids[b][axis + 1]

\* quicksort of the identity 0..num-1 with sorter<axis>: ascending by
\* centroid, equal centroids keeping their index order
quicksort(centroids, axis, num) ==
  LET rank(i) ==
        Cardinality({k \in 0..(num - 1) :
                       \/ sorter(centroids, axis, k, i)
                       \/ /\ ~sorter(centroids, axis, i, k)
                          /\ k < i})
  IN [j \in 0..(num - 1) |-> CHOOSE i \in 0..(num - 1) : rank(i) = j]

\* ------------------------------------------------------------------ state
VARIABLES
  pc,                   \* where create() stands
  maxprimitivenum, sahintersectioncost, sahtraversalcost,   \* VAR options
  prims, n,             \* compiler::prims, compiler::n
  istri, boxes,         \* compiler::istri, compiler::boxes
  ids,                  \* compiler::ids[3]
  pos,                  \* compiler::pos
  acc, accnum,          \* compiler::acc, compiler::accnum
  root,                 \* compiler::root, the node array
  currid, leafnum, nodenum, scenebox,
  stack, stacksz,       \* compile()'s segment stack[64] and stacksz
  node,                 \* compile()'s current segment
  seg,                  \* history: the index range each written node covers
  failed,               \* an assert of makeleaf has failed
  tree,                 \* what create() returned
  prev                  \* history: the option and leaf count of the last build

vars == <<pc, maxprimitivenum, sahintersectioncost, sahtraversalcost, prims, n,
          istri, boxes, ids, pos, acc, accnum, root, currid, leafnum, nodenum,
          scenebox, stack, stacksz, node, seg, failed, tree, prev>>

options == <<maxprimitivenum, sahintersectioncost, sahtraversalcost>>

\* the fields of struct compiler and the locals of compile()
compilerstate ==
  <<prims, n, istri, boxes, ids, pos, acc, accnum, root, currid, leafnum,
    nodenum, scenebox, stack, stacksz, node, seg, failed>>

NoSegment == [first |-> 0, last |-> -1, id |-> 0, box |-> EmptyBox]
NoNode == [flag |-> "UNSET", box |-> EmptyBox, axis |-> 0, offset |-> 0,
           ptr |-> -1, grown |-> 0]
NoRange == [first |-> 0, last |-> -1]
NoWald == [id |-> -1, matid |-> 0, num |-> 0]
NoPrev == [trav |-> 0, leafnum |-> 0]

segment(first, last, id, box) ==
  [first |-> first, last |-> last, id |-> id, box |-> box]

\* compiler(): n(0), accnum(0), currid(0), leafnum(0), nodenum(0)
Fresh ==
  /\ prims = <<>>
  /\ n = 0
  /\ istri = <<>>
  /\ boxes = <<>>
  /\ ids = <<>>
  /\ pos = <<>>
  /\ acc = <<>>
  /\ accnum = 0
  /\ root = <<>>
  /\ currid = 0
  /\ leafnum = 0
  /\ nodenum = 0
  /\ scenebox = EmptyBox
  /\ stack = <<>>
  /\ stacksz = 0
  /\ node = NoSegment
  /\ seg = <<>>
  /\ failed = FALSE

Init ==
  /\ pc = "idle"
  /\ maxprimitivenum = MAXPRIMITIVENUM_DEFAULT
  /\ sahintersectioncost = SAHCOST_DEFAULT
  /\ sahtraversalcost = SAHCOST_DEFAULT
  /\ tree = "none"
  /\ prev = NoPrev
  /\ Fresh

\* ------------------------------------------------------------- injection
RECURSIVE composeall(_, _, _, _)
\* scenebox.compose(boxes[i]) for i = 0..num-1
composeall(box, bx, i, num) ==
  IF i >= num THEN box
  ELSE composeall(compose(box, bx[i]), bx, i + 1, num)

RECURSIVE centroidsof(_, _)
\* line 89 for the first k primitives: centroids[i] = centroid(soup[i])
centroidsof(soup, k) ==
  IF k = 0 THEN <<>>
  ELSE Append(centroidsof(soup, k - 1), centroid(soup[k]))

\* lines 94-97: the three index lists, sorted by the centroids cs (cs[i+1]
\* is centroids[i] of the code)
sortedids(cs, primnum) ==
  LET centroids == [i \in 0..(primnum - 1) |-> cs[i + 1]]
  IN [a \in Axes |-> quicksort(centroids, a, primnum)]

\* compiler::injection(soup, primnum), then compile()'s first lines: the
\* root segment is put on the stack
injection(soup, primnum) ==
  LET p == [i \in 0..(primnum - 1) |-> soup[i + 1]]
      bx == [i \in 0..(primnum - 1) |-> getaabb(p[i])]
      sb == composeall(EmptyBox, bx, 0, primnum)
  IN /\ root' = [i \in 0..(2 * primnum) |-> NoNode]
     /\ seg' = [i \in 0..(2 * primnum) |-> NoRange]
     /\ pos' = [i \in 0..(primnum - 1) |-> ONLEFT]
     /\ n' = primnum
     /\ istri' = [i \in 0..(primnum - 1) |-> p[i].type = "TRI"]
     /\ boxes' = bx
     /\ scenebox' = sb
     /\ ids' = sortedids(centroidsof(soup, primnum), primnum)
     /\ prims' = p
     /\ acc' = [i \in 0..(primnum - 1) |-> NoWald]
     /\ stack' = <<segment(0, primnum - 1, 0, sb)>>
     /\ stacksz' = 1

\* ----------------------------------------------------------------- sweep
\* lines 108, 129 starting from a cost of 0
partition_zerocost(f, l, d) ==
  [boxes |-> [s \in Sides |-> EmptyBox], cost |-> 0, axis |-> d,
   first |-> [s \in Sides |-> f], last |-> [s \in Sides |-> l]]

\* partition(f, l, d); sweep sets the cost to FLT_MAX once more (line 129)
partition(f, l, d) ==
  [boxes |-> [s \in Sides |-> EmptyBox], cost |-> FLT_MAX, axis |-> d,
   first |-> [s \in Sides |-> f], last |-> [s \in Sides |-> l]]

RECURSIVE inclusion(_, _, _, _)
\* the inclusion sequence: rlboxes[a[j]] = boxes[a[j]] U rlboxes[a[j+1]],
\* for j = last-1 down to first
inclusion(rl, a, j, first) ==
  IF j < first THEN rl
  ELSE inclusion([rl EXCEPT ![a[j]] = compose(boxes[a[j]], rl[a[j + 1]])],
                 a, j - 1, first)

\* line 138 skipping a candidate that only equals the best
skipsplit_ties(cost, bestcost) == cost >= bestcost

\* line 138: the candidate at j is skipped
skipsplit(cost, bestcost) == cost > bestcost

\* line 142 taking the box of the primitive at j alone
leftbox_single(box, left) == boxes[left]

\* line 142: part.boxes[ONLEFT] = box
leftbox(box, left) == box

\* line 143 taking the inclusion box at j
rightbox_atj(rl, a, j) == rl[a[j]]

\* line 143: part.boxes[ONRIGHT] = c.rlboxes[c.ids[axis][j + 1]]
rightbox(rl, a, j) == rl[a[j + 1]]

RECURSIVE sweeploop(_, _, _, _, _, _)
\* the left-to-right loop of sweep; st = [box, n, part, alltris]
sweeploop(st, a, rl, j, last, primnum) ==
  IF j >= last THEN st
  ELSE LET left == a[j]
           right == a[j + 1]
           box == compose(st.box, boxes[left])
           larea == halfarea(box)
           rarea == halfarea(rl[right])
           cost == larea * st.n + rarea * (primnum - st.n)
           part == IF skipsplit(cost, st.part.cost) THEN st.part
                   ELSE [st.part EXCEPT !.cost = cost,
                                        !.last[ONLEFT] = j,
                                        !.first[ONRIGHT] = j + 1,
                                        !.boxes[ONLEFT] = leftbox(box, left),
                                        !.boxes[ONRIGHT] = rightbox(rl, a, j)]
       IN sweeploop([box |-> box, n |-> st.n + 1, part |-> part,
                     alltris |-> st.alltris /\ istri[left]],
                    a, rl, j + 1, last, primnum)

\* line 149 without the test of the last primitive
onlytris_loop(alltris, lastistri) == alltris

\* line 149: the range may become a leaf only if it holds triangles only
onlytris(alltris, lastistri) == alltris /\ lastistri

\* line 156 letting one primitive too many through
toolarge_offbyone(primnum) == primnum > maxprimitivenum + 1

\* line 156: the range is too large to become a leaf
toolarge(primnum) == primnum > maxprimitivenum

\* line 160 with the comparison turned round
leafwins_flipped(cost, splitcost) == cost >= splitcost

\* line 160 with < for <=
leafwins_strict(cost, splitcost) == cost < splitcost

\* line 160: the leaf is at least as cheap as the best split
leafwins(cost, splitcost) == cost <= splitcost

\* lines 154-155: the cost of the best split with the intersection and
\* traversal weights
realcost(cost, harea) == cost * sahintersectioncost + sahtraversalcost * harea

\* lines 146-166 of sweep: st is the state the loop ended in, id the last
\* primitive of the range
sweepleaf(st, id, primnum) ==
  LET box == compose(st.box, boxes[id])
      harea == halfarea(box)
      real == [st.part EXCEPT !.cost = realcost(@, harea)]
      cost == sahintersectioncost * primnum * harea
  IN IF ~onlytris(st.alltris, istri[id]) THEN st.part
     ELSE IF toolarge(primnum) THEN real
     ELSE IF leafwins(cost, real.cost)
          THEN [real EXCEPT !.cost = cost,
                            !.last = [s \in Sides |-> -1],
                            !.first = [s \in Sides |-> -1],
                            !.boxes = [s \in Sides |-> box]]
          ELSE real

\* lines 120-124 of sweep: rlboxes after the right-to-left pass over a
rlboxesof(a, first, last) ==
  inclusion([i \in 0..(n - 1) |-> IF i = a[last] THEN boxes[i] ELSE EmptyBox],
            a, last - 1, first)

\* lines 117-144 of sweep: the state after the two passes over the range
sweepscan(idl, axis, first, last) ==
  sweeploop([box |-> EmptyBox, n |-> 1,
             part |-> partition(first, last, axis), alltris |-> TRUE],
            idl[axis], rlboxesof(idl[axis], first, last), first, last,
            (last - first) + 1)

\* sweep<axis>(c, first, last) on the index lists idl
sweep(idl, axis, first, last) ==
  sweepleaf(sweepscan(idl, axis, first, last), idl[axis][last],
            (last - first) + 1)

\* lines 254, 256 with <= for <
better_orequal(best, part) == IF part.cost <= best.cost THEN part ELSE best

\* lines 254, 256: if (part.cost < best.cost) best = part
better(best, part) == IF part.cost < best.cost THEN part ELSE best

\* lines 252-256: the best of the three sweeps
bestof(idl, first, last) ==
  better(better(sweep(idl, 0, first, last), sweep(idl, 1, first, last)),
         sweep(idl, 2, first, last))

\* ------------------------------------------------------- node emission
\* line 200 without the + 1
offsetof_currid(data) == currid - data.id

\* line 200: the offset stored in an inner node
offsetof(data) == currid + 1 - data.id

\* makenode(c, data, axis)
makenode(data, axis) ==
  /\ root' = [root EXCEPT ![data.id] =
                [@ EXCEPT !.box = data.box, !.flag = "NONLEAF", !.axis = axis,
                          !.offset = offsetof(data)]]
  /\ nodenum' = nodenum + 1
  /\ seg' = [seg EXCEPT ![data.id] = [first |-> data.first, last |-> data.last]]

\* the loop of line 216 stopping one position early
leafpositions_short(data) == data.first..(data.last - 1)

\* line 216: the positions whose triangles makeleaf writes
leafpositions(data) == data.first..data.last

\* makeleaf(c, data); an assert that fails sets failed and the build goes on
makeleaf(data) ==
  LET cnt == data.last - data.first + 1
      first == prims[ids[0][data.first]]
      isisec == first.type = "INTERSECTOR"
      js == leafpositions(data)
  IN /\ root' = [root EXCEPT ![data.id] =
                   IF isisec
                   THEN [@ EXCEPT !.box = data.box, !.flag = "ISECLEAF",
                                  !.ptr = ids[0][data.first]]
                   ELSE [@ EXCEPT !.box = data.box, !.flag = "TRILEAF",
                                  !.ptr = accnum]]
     /\ acc' = IF isisec THEN acc
               ELSE [k \in DOMAIN acc |->
                       IF k - accnum + data.first \in js
                       THEN [id |-> ids[0][k - accnum + data.first],
                             matid |-> 0, num |-> cnt]
                       ELSE acc[k]]
     /\ accnum' = IF isisec THEN accnum ELSE accnum + Cardinality(js)
     /\ failed' = \/ failed
                  \/ isisec /\ cnt # 1
                  \/ ~isisec /\ \E j \in js : prims[ids[0][j]].type # "TRI"
     /\ leafnum' = leafnum + 1
     /\ nodenum' = nodenum + 1
     /\ seg' = [seg EXCEPT ![data.id] = [first |-> data.first, last |-> data.last]]

\* line 229 looping over one slot per primitive
grownslots_primnum == n

\* line 229: loopi(2*c.n-1)
grownslots == 2 * n - 1

\* growboxes(c): the first 2n-1 slots are inflated by aabbeps; grown counts
\* the inflations of a slot
growboxes ==
  root' = [i \in DOMAIN root |->
             IF i < grownslots THEN [root[i] EXCEPT !.grown = @ + 1] ELSE root[i]]

\* ---------------------------------------------------------- reordering
\* lines 268-271: the side of every primitive of the two ranges
storepositions(idl, best) ==
  LET a == idl[best.axis]
      onleft == {a[j] : j \in best.first[ONLEFT]..best.last[ONLEFT]}
      onright == {a[j] : j \in best.first[ONRIGHT]..best.last[ONRIGHT]}
  IN [i \in DOMAIN pos |->
        IF i \in onright THEN ONRIGHT
        ELSE IF i \in onleft THEN ONLEFT
        ELSE pos[i]]

\* line 277 without the + i
otheraxis_first(axis, i) == <<1, 2, 0, 1>>[axis + 1]

\* otheraxis[best.axis + i] of the table {1,2,0,1}
otheraxis(axis, i) == <<1, 2, 0, 1>>[axis + i + 1]

RECURSIVE scan(_, _, _, _)
\* lines 279-283 for j..data.last; st = [a, tmp, leftnum, rightnum]
scan(st, p, j, data) ==
  IF j > data.last THEN st
  ELSE scan(IF p[st.a[j]] = ONLEFT
            THEN [st EXCEPT !.a[data.first + st.leftnum] = st.a[j],
                            !.leftnum = @ + 1]
            ELSE [st EXCEPT !.tmp = Append(@, st.a[j]), !.rightnum = @ + 1],
            p, j + 1, data)

\* line 285 reading tmpids from its end
tmpindex_backwards(j, leftnum, data) == data.last - j

\* line 285: the index into tmpids, j - leftnum - node.first
tmpindex(j, leftnum, data) == j - leftnum - data.first

\* lines 284-285: the right side is copied back behind the left side;
\* tmp[k] of the code is tmp[k+1] here
copyback(idl, d0, data, st) ==
  [ids |-> [idl EXCEPT ![d0] =
              [j \in DOMAIN st.a |->
                 IF j >= data.first + st.leftnum /\ j <= data.last
                 THEN st.tmp[tmpindex(j, st.leftnum, data) + 1]
                 ELSE st.a[j]]],
   leftnum |-> st.leftnum, rightnum |-> st.rightnum]

\* lines 277-285: the index list of axis d0 is split stably into the left
\* side then the right side
reorder(idl, p, d0, data) ==
  copyback(idl, d0, data,
           scan([a |-> idl[d0], tmp |-> <<>>, leftnum |-> 0, rightnum |-> 0],
                p, data.first, data))

\* lines 275-286: loopi(OTHERAXISNUM) over the two other axes; the counts
\* are those of the last one
reorderothers(idl, p, axis, data) ==
  reorder(reorder(idl, p, otheraxis(axis, 0), data).ids, p, otheraxis(axis, 1),
          data)

\* lines 289-290: the side the loop goes on with, and the side it stacks
\* lines 289-290 with the comparison turned round
rightlarger_swapped(leftnum, rightnum) == leftnum > rightnum

\* lines 289-290 with >= for >
rightlarger_orequal(leftnum, rightnum) == rightnum >= leftnum

\* lines 289-290: the test that picks the sides
rightlarger(leftnum, rightnum) == rightnum > leftnum

p0of(leftnum, rightnum) ==
  IF rightlarger(leftnum, rightnum) THEN ONLEFT ELSE ONRIGHT

\* line 290 with the sides of line 289
p1of_copied(leftnum, rightnum) ==
  IF rightlarger(leftnum, rightnum) THEN ONLEFT ELSE ONRIGHT

p1of(leftnum, rightnum) ==
  IF rightlarger(leftnum, rightnum) THEN ONRIGHT ELSE ONLEFT

\* --------------------------------------------------------------- actions
\* the console sets one of the build options
setvar ==
  /\ pc = "idle"
  /\ \E v \in MaxPrimValues, ci \in IsectValues, ct \in TravValues :
       /\ \/ v # maxprimitivenum /\ ci = sahintersectioncost /\ ct = sahtraversalcost
          \/ v = maxprimitivenum /\ ci # sahintersectioncost /\ ct = sahtraversalcost
          \/ v = maxprimitivenum /\ ci = sahintersectioncost /\ ct # sahtraversalcost
       /\ maxprimitivenum' = v
       /\ sahintersectioncost' = ci
       /\ sahtraversalcost' = ct
  /\ UNCHANGED <<pc, prims, n, istri, boxes, ids, pos, acc, accnum, root, currid,
                 leafnum, nodenum, scenebox, stack, stacksz, node, seg, failed,
                 tree, prev>>

\* create(prims, 0): line 304 returns NULL before a compiler exists
createempty ==
  /\ pc = "idle"
  /\ <<>> \in Soups
  /\ pc' = "done"
  /\ tree' = "NULL"
  /\ UNCHANGED <<options, prims, n, istri, boxes, ids, pos, acc, accnum, root,
                 currid, leafnum, nodenum, scenebox, stack, stacksz, node, seg,
                 failed, prev>>

\* create(prims, n) with n > 0, up to the while loop of compile()
create ==
  /\ pc = "idle"
  /\ \E soup \in Soups :
       /\ Len(soup) # 0
       /\ injection(soup, Len(soup))
  /\ pc' = "while"
  /\ tree' = "none"
  /\ UNCHANGED <<options, accnum, currid, leafnum, nodenum, node, failed, prev>>

\* node = stack[--stacksz]
pop ==
  /\ pc = "while"
  /\ stacksz # 0
  /\ node' = stack[stacksz]
  /\ stack' = SubSeq(stack, 1, stacksz - 1)
  /\ stacksz' = stacksz - 1
  /\ pc' = "for"
  /\ UNCHANGED <<options, prims, n, istri, boxes, ids, pos, acc, accnum, root,
                 currid, leafnum, nodenum, scenebox, seg, failed, tree, prev>>

\* lines 246-249: one primitive is left
leafone ==
  /\ pc = "for"
  /\ node.last - node.first = 0
  /\ makeleaf(node)
  /\ pc' = "while"
  /\ UNCHANGED <<options, prims, n, istri, boxes, ids, pos, currid, scenebox,
                 stack, stacksz, node, tree, prev>>

\* lines 252-262: the best partition is no partition
leafbest ==
  /\ pc = "for"
  /\ node.last - node.first # 0
  /\ bestof(ids, node.first, node.last).first[ONLEFT] = -1
  /\ makeleaf(node)
  /\ pc' = "while"
  /\ UNCHANGED <<options, prims, n, istri, boxes, ids, pos, currid, scenebox,
                 stack, stacksz, node, tree, prev>>

\* lines 291, 295 with the two ids exchanged
sideid_swapped(p) == currid + 2 - p

\* lines 291, 295: the node id of side p, currid+p+1
sideid(p) == currid + p + 1

\* line 296 adding 1
nextcurrid_one == currid + 1

\* line 296: currid += 2
nextcurrid == currid + 2

\* lines 288-296: one side is stacked, the loop goes on with the other
nextsides(best, r) ==
  LET p0 == p0of(r.leftnum, r.rightnum)
      p1 == p1of(r.leftnum, r.rightnum)
  IN /\ ids' = r.ids
     /\ stack' = Append(stack, segment(best.first[p1], best.last[p1],
                                       sideid(p1), best.boxes[p1]))
     /\ stacksz' = stacksz + 1
     /\ node' = segment(best.first[p0], best.last[p0], sideid(p0),
                        best.boxes[p0])
     /\ currid' = nextcurrid

\* lines 267-296 with the positions p stored
partitioned(best, p) ==
  /\ pos' = p
  /\ nextsides(best, reorderothers(ids, p, best.axis, node))

\* lines 259-296 with the best partition found
splitat(best) ==
  /\ best.first[ONLEFT] # -1
  /\ makenode(node, best.axis)
  /\ partitioned(best, storepositions(ids, best))

\* lines 252-296: an inner node, the reordering and the two sides
split ==
  /\ pc = "for"
  /\ node.last - node.first # 0
  /\ splitat(bestof(ids, node.first, node.last))
  /\ pc' = "for"
  /\ UNCHANGED <<options, prims, n, istri, boxes, acc, accnum, leafnum, scenebox,
                 failed, tree, prev>>

\* the stack is empty: growboxes, then create() hands the tree over
finish ==
  /\ pc = "while"
  /\ stacksz = 0
  /\ growboxes
  /\ tree' = "tree"
  /\ pc' = "done"
  /\ UNCHANGED <<options, prims, n, istri, boxes, ids, pos, acc, accnum, currid,
                 leafnum, nodenum, scenebox, stack, stacksz, node, seg, failed,
                 prev>>

\* line 319 never taking the early return
isnull_never(t) == FALSE

\* line 319: bvhtree == NULL
isnull(t) == t = "NULL"

\* destroy(tree): nothing happens to a NULL tree; any other tree is deleted
\* with its node array, and the next create() starts from a new compiler
destroy ==
  /\ pc = "done"
  /\ pc' = "idle"
  /\ IF isnull(tree)
     THEN UNCHANGED <<tree, compilerstate, prev>>
     ELSE /\ tree' = "none"
          /\ prims' = <<>>
          /\ n' = 0
          /\ istri' = <<>>
          /\ boxes' = <<>>
          /\ ids' = <<>>
          /\ pos' = <<>>
          /\ acc' = <<>>
          /\ accnum' = 0
          /\ root' = <<>>
          /\ currid' = 0
          /\ leafnum' = 0
          /\ nodenum' = 0
          /\ scenebox' = EmptyBox
          /\ stack' = <<>>
          /\ stacksz' = 0
          /\ node' = NoSegment
          /\ seg' = <<>>
          /\ failed' = FALSE
          /\ prev' = NoPrev
  /\ UNCHANGED options

\* destroy(tree), sahtraversalcost is set to another value, and create()
\* is called on the same primitives; prev keeps the first build's figures
retune ==
  /\ pc = "done"
  /\ tree = "tree"
  /\ prev = NoPrev
  /\ \E ct \in TravValues :
       /\ ct # sahtraversalcost
       /\ sahtraversalcost' = ct
  /\ prev' = [trav |-> sahtraversalcost, leafnum |-> leafnum]
  /\ injection([i \in 1..n |-> prims[i - 1]], n)
  /\ accnum' = 0
  /\ currid' = 0
  /\ leafnum' = 0
  /\ nodenum' = 0
  /\ node' = NoSegment
  /\ failed' = FALSE
  /\ pc' = "while"
  /\ tree' = "none"
  /\ UNCHANGED <<maxprimitivenum, sahintersectioncost>>

Next ==
  \/ setvar
  \/ createempty
  \/ create
  \/ pop
  \/ leafone
  \/ leafbest
  \/ split
  \/ finish
  \/ destroy

Spec == Init /\ [][Next]_vars

\* the builds of one soup under two values of sahtraversalcost
NextRetune ==
  \/ createempty
  \/ create
  \/ pop
  \/ leafone
  \/ leafbest
  \/ split
  \/ finish
  \/ retune
  \/ destroy

SpecRetune == Init /\ [][NextRetune]_vars

\* ------------------------------------------------- reading the node array
Built == pc = "done" /\ tree = "tree"
Building == pc \in {"while", "for"}

NodeIds == DOMAIN root
Written(d) == root[d].flag # "UNSET"
IsInner(d) == root[d].flag = "NONLEAF"
IsTriLeaf(d) == root[d].flag = "TRILEAF"
IsIsecLeaf(d) == root[d].flag = "ISECLEAF"
IsLeaf(d) == IsTriLeaf(d) \/ IsIsecLeaf(d)

\* the children of the inner node d: the left range gets id currid+1, which
\* is d + offset, the right range the id after it
LeftChild(d) == d + root[d].offset
RightChild(d) == d + root[d].offset + 1

\* the number of primitives of a leaf: the num of its first Wald record, or
\* the one primitive of a sub-intersector leaf
LeafCount(d) ==
  IF IsIsecLeaf(d) THEN 1
  ELSE IF root[d].ptr \in DOMAIN acc THEN acc[root[d].ptr].num ELSE 0

\* the primitive in slot k of leaf d (-1: no record there)
LeafPrim(d, k) ==
  IF IsIsecLeaf(d) THEN root[d].ptr
  ELSE IF root[d].ptr + k \in DOMAIN acc THEN acc[root[d].ptr + k].id ELSE -1

\* the slots of all leaves that hold primitive i
LeafSlots(i) ==
  {dk \in NodeIds \X (0..n) :
     /\ IsLeaf(dk[1])
     /\ dk[2] < LeafCount(dk[1])
     /\ LeafPrim(dk[1], dk[2]) = i}

RangeOf(s) == s.first..s.last
IdsIn(a, s) == {ids[a][j] : j \in RangeOf(s)}

Encloses(outer, inner) ==
  \A i \in 1..3 : outer.pmin[i] <= inner.pmin[i] /\ inner.pmax[i] <= outer.pmax[i]

\* the smallest box around the primitives of a set
BoxOf(S) ==
  LET lo(i) == CHOOSE m \in {boxes[x].pmin[i] : x \in S} :
                 \A x \in S : m <= boxes[x].pmin[i]
      hi(i) == CHOOSE m \in {boxes[x].pmax[i] : x \in S} :
                 \A x \in S : m >= boxes[x].pmax[i]
  IN aabb(Vec(lo(1), lo(2), lo(3)), Vec(hi(1), hi(2), hi(3)))

SameBox(a, b) ==
  \A i \in 1..3 : a.pmin[i] = b.pmin[i] /\ a.pmax[i] = b.pmax[i]

\* the segments the build still has to work on
LiveSegments ==
  {stack[k] : k \in 1..stacksz} \cup (IF pc = "for" THEN {node} ELSE {})

RECURSIVE Subtree(_)
Subtree(d) ==
  IF d \in NodeIds /\ IsInner(d) /\ root[d].offset >= 1
  THEN {d} \cup Subtree(LeftChild(d)) \cup Subtree(RightChild(d))
  ELSE {d}

RECURSIVE Log2(_)
Log2(k) == IF k <= 1 THEN 0 ELSE 1 + Log2(k \div 2)

\* ------------------------------------------------------------------- C1
\* C1: after create() on n >= 1 primitives every primitive index 0..n-1 is
\* in exactly one slot of exactly one leaf
Coverage ==
  Built => \A i \in 0..(n - 1) : Cardinality(LeafSlots(i)) = 1

\* a finished tree with a triangle leaf of two or more primitives, a
\* sub-intersector leaf and an inner node
CoverageWitness ==
  /\ Built
  /\ \E d \in NodeIds : IsTriLeaf(d) /\ LeafCount(d) >= 2
  /\ \E d \in NodeIds : IsIsecLeaf(d)
  /\ n >= 4

\* ------------------------------------------------------------------- C2
\* C2 as stated: in the finished node array every inner node d has its left
\* child at d+1, its right child above d+1, and the ids of its subtree form
\* a contiguous range starting at d
DepthFirstLayout ==
  Built =>
    \A d \in NodeIds :
      IsInner(d) =>
        /\ LeftChild(d) = d + 1
        /\ RightChild(d) > d + 1
        /\ Subtree(d) = d..(d + Cardinality(Subtree(d)) - 1)

\* C2 amended: in the finished node array every inner node d stores an
\* offset >= 1; its left child is the node at d+offset and covers the left
\* part of d's range, its right child is the node at d+offset+1 (an id above
\* d+1) and covers the rest, and every other node of d's subtree has an id
\* above d
SiblingLayout ==
  Built =>
    \A d \in NodeIds :
      IsInner(d) =>
        /\ root[d].offset >= 1
        /\ RightChild(d) \in NodeIds
        /\ RightChild(d) > d + 1
        /\ Written(LeftChild(d))
        /\ Written(RightChild(d))
        /\ seg[LeftChild(d)].first = seg[d].first
        /\ seg[LeftChild(d)].last >= seg[LeftChild(d)].first
        /\ seg[RightChild(d)].first = seg[LeftChild(d)].last + 1
        /\ seg[RightChild(d)].last >= seg[RightChild(d)].first
        /\ seg[RightChild(d)].last = seg[d].last
        /\ \A e \in Subtree(d) \ {d} : e > d

\* a finished tree with an inner node whose left child is not the next node
SiblingLayoutWitness ==
  /\ Built
  /\ \E d \in NodeIds : IsInner(d) /\ LeftChild(d) > d + 1
  /\ \E d \in NodeIds : IsInner(d) /\ LeftChild(d) = d + 1 /\ d > 0

\* ------------------------------------------------------------------- C3
\* C3: every leaf is a triangle leaf over triangles only, each of its Wald
\* records carrying the leaf's primitive count, or a sub-intersector leaf
\* over exactly one primitive; no assert of makeleaf fails
LeafComposition ==
  /\ ~failed
  /\ \A d \in NodeIds :
       /\ IsTriLeaf(d) =>
            /\ \A j \in RangeOf(seg[d]) : istri[ids[0][j]]
            /\ \A k \in 0..(seg[d].last - seg[d].first) :
                 /\ root[d].ptr + k \in DOMAIN acc
                 /\ acc[root[d].ptr + k].num = seg[d].last - seg[d].first + 1
                 /\ acc[root[d].ptr + k].id = ids[0][seg[d].first + k]
       /\ IsIsecLeaf(d) =>
            /\ seg[d].last = seg[d].first
            /\ ~istri[root[d].ptr]
            /\ root[d].ptr = ids[0][seg[d].first]

\* a range mixing triangles and a sub-intersector has been split, and a
\* triangle leaf of several primitives and a sub-intersector leaf exist
LeafCompositionWitness ==
  /\ \E d \in NodeIds :
       /\ IsInner(d)
       /\ \E j \in RangeOf(seg[d]) : istri[ids[0][j]]
       /\ \E j \in RangeOf(seg[d]) : ~istri[ids[0][j]]
  /\ \E d \in NodeIds : IsTriLeaf(d) /\ seg[d].last > seg[d].first
  /\ \E d \in NodeIds : IsIsecLeaf(d)

\* ------------------------------------------------------------------- C4
\* C4: every triangle leaf of the finished tree holds at most
\* maxprimitivenum primitives
LeafSizeBound ==
  Built =>
    \A d \in NodeIds :
      IsTriLeaf(d) =>
        /\ LeafCount(d) <= maxprimitivenum
        /\ seg[d].last - seg[d].first + 1 <= maxprimitivenum

\* a finished tree over more triangles than a leaf may hold, with a leaf
\* that is full
LeafSizeBoundWitness ==
  /\ Built
  /\ maxprimitivenum = 2
  /\ n >= 3
  /\ \A i \in 0..(n - 1) : istri[i]
  /\ \E d \in NodeIds : IsTriLeaf(d) /\ LeafCount(d) = maxprimitivenum

\* ------------------------------------------------------------------- C5
\* C5: when the build finishes nodenum = 2*leafnum - 1 <= 2n-1, with
\* equality when every leaf holds one primitive; with maxprimitivenum = 1
\* and n triangles there are n leaves and n-1 inner nodes
NodeCount ==
  Built =>
    /\ nodenum = 2 * leafnum - 1
    /\ nodenum <= 2 * n - 1
    /\ nodenum = Cardinality({d \in NodeIds : Written(d)})
    /\ leafnum = Cardinality({d \in NodeIds : IsLeaf(d)})
    /\ (\A d \in NodeIds : IsLeaf(d) => LeafCount(d) = 1) => nodenum = 2 * n - 1
    /\ (maxprimitivenum = 1 /\ \A i \in 0..(n - 1) : istri[i]) =>
         /\ leafnum = n
         /\ Cardinality({d \in NodeIds : IsInner(d)}) = n - 1

\* a finished tree over four or more triangles with one triangle per leaf,
\* and one with fewer nodes because a leaf holds several
NodeCountWitness ==
  /\ Built
  /\ n >= 4
  /\ \A i \in 0..(n - 1) : istri[i]
  /\ maxprimitivenum = 1
  /\ nodenum = 2 * n - 1

\* ------------------------------------------------------------------- C6
\* C6: the box stored in an inner node (grown counts the inflation apart
\* from it) encloses the boxes stored in both of its child nodes
Containment ==
  \A d \in NodeIds :
    IsInner(d) =>
      /\ Written(LeftChild(d)) => Encloses(root[d].box, root[LeftChild(d)].box)
      /\ Written(RightChild(d)) => Encloses(root[d].box, root[RightChild(d)].box)

\* an inner node below the root whose box is larger than the boxes of its
\* two written children
ContainmentWitness ==
  \E d \in NodeIds :
    /\ d > 0
    /\ IsInner(d)
    /\ Written(LeftChild(d))
    /\ Written(RightChild(d))
    /\ ~SameBox(root[d].box, root[LeftChild(d)].box)
    /\ ~SameBox(root[d].box, root[RightChild(d)].box)
    /\ seg[LeftChild(d)].last > seg[LeftChild(d)].first

\* ------------------------------------------------------------------- C7
\* C7: at every point of the build each ids[a] is a permutation of 0..n-1,
\* and for every live segment the three slices ids[a][first..last] hold the
\* same set of primitive indices
SortStateConsistency ==
  (Building \/ Built) =>
    /\ \A a \in Axes :
         /\ DOMAIN ids[a] = 0..(n - 1)
         /\ {ids[a][j] : j \in 0..(n - 1)} = 0..(n - 1)
    /\ \A s \in LiveSegments :
         /\ 0 <= s.first
         /\ s.first <= s.last
         /\ s.last <= n - 1
         /\ IdsIn(0, s) = IdsIn(1, s)
         /\ IdsIn(0, s) = IdsIn(2, s)

\* after a split, the loop goes on with a side of two or more primitives
\* whose slices are ordered differently on two axes, its sibling stacked
SortStateWitness ==
  /\ pc = "for"
  /\ stacksz >= 1
  /\ node.id > 0
  /\ node.last > node.first
  /\ \E j \in RangeOf(node) : ids[0][j] # ids[1][j] \/ ids[0][j] # ids[2][j]

\* ------------------------------------------------------------------- C8
\* C8: the box of every live segment is the union of the boxes of the
\* primitives ids[0][first..last], and so is the box written into a node
BoxExactness ==
  /\ \A s \in LiveSegments : SameBox(s.box, BoxOf(IdsIn(0, s)))
  /\ \A d \in NodeIds : Written(d) => SameBox(root[d].box, BoxOf(IdsIn(0, seg[d])))

\* both sides of a split hold two or more primitives and have boxes smaller
\* than the node's
BoxExactnessWitness ==
  /\ pc = "for"
  /\ stacksz >= 1
  /\ node.last > node.first
  /\ stack[stacksz].last > stack[stacksz].first
  /\ ~SameBox(node.box, stack[stacksz].box)
  /\ ~SameBox(node.box, scenebox)
  /\ ~SameBox(stack[stacksz].box, scenebox)

\* ------------------------------------------------------------------- C9
\* C9: the work stack never holds more than its 64 entries, and never more
\* than floor(log2 n) + 1
StackBound ==
  /\ stacksz <= STACKCAP
  /\ stacksz = Len(stack)
  /\ n >= 1 => stacksz <= Log2(n) + 1

\* the stack holds floor(log2 n) >= 2 entries during a build
StackBoundWitness ==
  /\ pc = "for"
  /\ n >= 4
  /\ stacksz = Log2(n)

\* ------------------------------------------------------------------ C10
\* C10 as stated: of two builds of the same primitives that differ in
\* sahtraversalcost only, the one with the smaller cost never has more
\* leaves
TravNeverMoreLeaves ==
  (Built /\ prev # NoPrev) =>
    /\ prev.trav < sahtraversalcost => prev.leafnum <= leafnum
    /\ sahtraversalcost < prev.trav => leafnum <= prev.leafnum

\* C10 amended: of two builds of the same primitives that differ in
\* sahtraversalcost only, the one with the smaller cost never has fewer
\* leaves
TravNeverFewerLeaves ==
  (Built /\ prev # NoPrev) =>
    /\ prev.trav < sahtraversalcost => prev.leafnum >= leafnum
    /\ sahtraversalcost < prev.trav => leafnum >= prev.leafnum

\* the second build, under a larger sahtraversalcost, has fewer leaves than
\* the first, and more than one
TravWitness ==
  /\ Built
  /\ prev # NoPrev
  /\ prev.trav < sahtraversalcost
  /\ leafnum < prev.leafnum
  /\ leafnum > 1

\* ------------------------------------------------------------------ C11
\* C11: create() on no primitives returns NULL and touches nothing else: no
\* node array is allocated, injection and the build do not run; destroy()
\* of that NULL changes nothing
EmptyInput ==
  [][/\ tree' = "NULL" =>
          /\ pc' \in {"done", "idle"}
          /\ root' = <<>>
          /\ n' = 0
          /\ ids' = <<>>
          /\ boxes' = <<>>
          /\ stack' = <<>>
          /\ stacksz' = 0
          /\ nodenum' = 0
          /\ leafnum' = 0
          /\ currid' = 0
          /\ accnum' = 0
     /\ (pc = "idle" /\ pc' = "done") =>
          /\ tree' = "NULL"
          /\ UNCHANGED <<compilerstate, options, prev>>
     /\ (tree = "NULL" /\ pc = "done") =>
          /\ pc' = "idle"
          /\ UNCHANGED <<tree, compilerstate, options, prev>>]_vars

\* the NULL of an empty create() has been destroyed, under other options
\* than the defaults
EmptyInputWitness ==
  /\ pc = "idle"
  /\ tree = "NULL"
  /\ maxprimitivenum # MAXPRIMITIVENUM_DEFAULT

\* ------------------------------------------------------------------ C12
\* the SAH cost of cutting segment s behind position j of the axis-a order:
\* area of the left box times its count plus the same for the right
SplitCost(a, s, j) ==
  halfarea(BoxOf({ids[a][k] : k \in s.first..j})) * (j - s.first + 1)
    + halfarea(BoxOf({ids[a][k] : k \in (j + 1)..s.last})) * (s.last - j)

\* the least number of a set
MinOf(S) == CHOOSE c \in S : \A x \in S : c <= x

\* the greatest number of a set
MaxOf(S) == CHOOSE c \in S : \A x \in S : x <= c

\* the least cost of a cut of segment s on axis a
MinSplitCost(a, s) ==
  MinOf({SplitCost(a, s, j) : j \in s.first..(s.last - 1)})

\* the positions of segment s whose cut costs m on axis a
PositionsAt(a, s, m) ==
  {j \in s.first..(s.last - 1) : SplitCost(a, s, j) = m}

\* the positions of segment s whose cut has the least cost on axis a
MinCostPositions(a, s) == PositionsAt(a, s, MinSplitCost(a, s))

\* the partition part of the current segment cuts behind position j, at
\* cost c
CutsAt(part, j, c) ==
  /\ part.cost = c
  /\ part.first[ONLEFT] = node.first
  /\ part.last[ONLEFT] = j
  /\ part.first[ONRIGHT] = j + 1
  /\ part.last[ONRIGHT] = node.last

\* C12 as stated: the split a sweep finds is at the smallest position of
\* least cost
SweepTakesFirstMinimum ==
  (pc = "for" /\ node.last > node.first) =>
    \A a \in Axes :
      sweepscan(ids, a, node.first, node.last).part.last[ONLEFT]
        = MinOf(MinCostPositions(a, node))

\* C12 amended: the best split is replaced whenever the cost at j is not
\* greater than the best so far, so the split a sweep finds is at the
\* largest position of least cost: the left range is first..j, the right
\* range j+1..last
SweepTakesLastMinimum ==
  (pc = "for" /\ node.last > node.first) =>
    \A a \in Axes :
      CutsAt(sweepscan(ids, a, node.first, node.last).part,
             MaxOf(MinCostPositions(a, node)), MinSplitCost(a, node))

\* a segment of three or more primitives with several cuts of the same
\* least cost on one axis and a single cheapest cut on another
SweepTieWitness ==
  /\ pc = "for"
  /\ node.last - node.first >= 2
  /\ \E a \in Axes : Cardinality(MinCostPositions(a, node)) >= 2
  /\ \E a \in Axes : Cardinality(MinCostPositions(a, node)) = 1

\* ------------------------------------------------------------------ C13
\* the number of primitives of a segment
SizeOf(s) == s.last - s.first + 1

\* C13 as stated: the step that emits an inner node stacks the side with
\* fewer primitives and goes on with the side with more
SmallerSideStacked ==
  [][currid' = currid + 2 => SizeOf(stack'[stacksz']) <= SizeOf(node')]_vars

\* C13 amended: the step that emits an inner node stacks the side with more
\* primitives and goes on with the side with fewer; when both sides have
\* the same number it stacks the left side and goes on with the right one
LargerSideStacked ==
  [][currid' = currid + 2 =>
       /\ stacksz' = stacksz + 1
       /\ {stack'[stacksz'].id, node'.id} = {currid + 1, currid + 2}
       /\ SizeOf(stack'[stacksz']) + SizeOf(node') = SizeOf(node)
       /\ SizeOf(stack'[stacksz']) >= SizeOf(node')
       /\ SizeOf(stack'[stacksz']) = SizeOf(node') =>
            /\ stack'[stacksz'].id = currid + 1
            /\ node'.id = currid + 2
       /\ SizeOf(stack'[stacksz']) > SizeOf(node') =>
            \/ /\ node'.id = currid + 1
               /\ node'.first = node.first
               /\ stack'[stacksz'].last = node.last
            \/ /\ node'.id = currid + 2
               /\ node'.last = node.last
               /\ stack'[stacksz'].first = node.first]_vars

\* right after a split: the loop goes on with the left side, of one
\* primitive, and the right side, of three or more, is on the stack
SiblingOrderWitness ==
  /\ pc = "for"
  /\ stacksz >= 1
  /\ node.id = currid - 1
  /\ stack[stacksz].id = currid
  /\ SizeOf(node) = 1
  /\ SizeOf(stack[stacksz]) >= 3

\* ------------------------------------------------------------------ C14
\* the two sides a split step hands on: the segment it goes on with and
\* the one it has just stacked
HandedOn(id) ==
  IF node'.id = id THEN node' ELSE stack'[stacksz']

\* the step that emits inner node D = node.id while the counter is currid
\* stores offset currid+1-D >= 1, gives the left part of the range the id
\* currid+1 and the right part the id currid+2, and adds 2 to the counter
PlacedAtSplit ==
  currid' = currid + 2 =>
    /\ root'[node.id].flag = "NONLEAF"
    /\ root'[node.id].offset = currid + 1 - node.id
    /\ root'[node.id].offset >= 1
    /\ node.id + root'[node.id].offset = currid + 1
    /\ {node'.id, stack'[stacksz'].id} = {currid + 1, currid + 2}
    /\ HandedOn(currid + 1).first = node.first
    /\ HandedOn(currid + 1).last < node.last
    /\ HandedOn(currid + 2).first = HandedOn(currid + 1).last + 1
    /\ HandedOn(currid + 2).last = node.last
    /\ root'[currid + 1].flag = "UNSET"
    /\ root'[currid + 2].flag = "UNSET"

\* a node written at id e covers the range that was handed on with id e:
\* the children of inner node d, once written, cover the left and the right
\* part of d's range
PlacedWhenWritten ==
  \A d \in NodeIds :
    IsInner(d) =>
      /\ d + root[d].offset + 1 \in NodeIds
      /\ Written(LeftChild(d)) =>
           /\ seg[LeftChild(d)].first = seg[d].first
           /\ seg[LeftChild(d)].last < seg[d].last
      /\ Written(RightChild(d)) =>
           /\ seg[RightChild(d)].last = seg[d].last
           /\ seg[RightChild(d)].first > seg[d].first
      /\ (Written(LeftChild(d)) /\ Written(RightChild(d))) =>
           seg[RightChild(d)].first = seg[LeftChild(d)].last + 1
      /\ Built => Written(LeftChild(d)) /\ Written(RightChild(d))

\* C14: an inner node D emitted while the counter is c stores offset
\* c+1-D >= 1, its left sub-range is later written at node c+1 = D+offset
\* and its right sub-range at node c+2, and the counter advances by 2,
\* whether D was continued in the inner loop or popped from the stack
ChildPlacement == []PlacedWhenWritten /\ [][PlacedAtSplit]_vars

\* a finished tree with an inner node emitted right after its parent
\* (offset 1) and one that waited on the stack while other nodes were
\* numbered (offset 3 or more)
ChildPlacementWitness ==
  /\ Built
  /\ \E d \in NodeIds : d > 0 /\ IsInner(d) /\ root[d].offset = 1
  /\ \E d \in NodeIds : d > 0 /\ IsInner(d) /\ root[d].offset >= 3

\* ------------------------------------------------------------------ C15
\* a leaf of num primitives in a box of half area harea costs no more than
\* the weighted cost of a cut of bare cost bare
NoDearer(num, harea, bare) ==
  sahintersectioncost * num * harea
    <= sahintersectioncost * bare + sahtraversalcost * harea

\* the leaf over segment s costs no more than the weighted cost of the
\* best cut on axis a
LeafNoDearer(a, s) ==
  NoDearer(SizeOf(s), halfarea(BoxOf(IdsIn(0, s))), MinSplitCost(a, s))

\* segment s is to become a leaf
LeafDecision(s) ==
  /\ \A j \in RangeOf(s) : istri[ids[0][j]]
  /\ SizeOf(s) <= maxprimitivenum
  /\ \A a \in Axes : LeafNoDearer(a, s)

\* C15: a segment of two or more primitives becomes a leaf if and only if
\* it holds triangles only, no more than maxprimitivenum of them, and on
\* each of the three axes the leaf cost C_isect*primnum*halfarea is <= the
\* weighted cost C_isect*best + C_trav*halfarea of the best cut; otherwise
\* it becomes an inner node
LeafOrInner ==
  [][(pc = "for" /\ SizeOf(node) >= 2) =>
       /\ root'[node.id].flag \in {"TRILEAF", "NONLEAF"}
       /\ root'[node.id].flag = "TRILEAF" <=> LeafDecision(node)]_vars

\* a range of several triangles has become a leaf although on one axis
\* the best cut costs exactly as much as the leaf
LeafOrInnerWitness ==
  \E d \in NodeIds :
    /\ IsTriLeaf(d)
    /\ SizeOf(seg[d]) >= 2
    /\ LeafDecision(seg[d])
    /\ \E a \in Axes :
         sahintersectioncost * SizeOf(seg[d]) * halfarea(root[d].box)
           = sahintersectioncost * MinSplitCost(a, seg[d])
               + sahtraversalcost * halfarea(root[d].box)

\* ------------------------------------------------------------------ C16
\* the centroid of primitive i on axis a (times 6)
CentroidOn(a, i) == centroid(prims[i])[a + 1]

\* the slice first..last of the index list idl is ascending by centroid on
\* axis a
SortedOn(idl, a, first, last) ==
  \A j, k \in first..last :
    j < k => CentroidOn(a, idl[j]) <= CentroidOn(a, idl[k])

\* the position of primitive x in the index list idl
PositionIn(idl, x) == CHOOSE j \in DOMAIN idl : idl[j] = x

\* the split step puts, on every axis, the left set into the left range
\* and the right set into the right range, keeps the order the elements of
\* each half had on that axis, and leaves the lists alone outside the range
HalvesKeepOrder ==
  currid' = currid + 2 =>
    \A d \in Axes :
      /\ \A side \in {HandedOn(currid + 1), HandedOn(currid + 2)} :
           LET set == {ids[root'[node.id].axis][j] : j \in RangeOf(side)}
           IN /\ {ids'[d][j] : j \in RangeOf(side)} = set
              /\ SortedOn(ids'[d], d, side.first, side.last)
              /\ \A x, y \in set :
                   PositionIn(ids[d], x) < PositionIn(ids[d], y)
                     <=> PositionIn(ids'[d], x) < PositionIn(ids'[d], y)
      /\ \A j \in DOMAIN ids[d] : j \notin RangeOf(node) => ids'[d][j] = ids[d][j]

\* the slice of every live segment is sorted on every axis
SlicesSorted ==
  Building =>
    \A s \in LiveSegments : \A a \in Axes : SortedOn(ids[a], a, s.first, s.last)

\* C16: after the reordering for a split, on each other axis d the two
\* slices hold the left and the right set, each sorted by centroid on d with
\* the order inside each half unchanged; so the slice of every live segment
\* on every axis is sorted on that axis throughout the build
OrderPreservingPartition == []SlicesSorted /\ [][HalvesKeepOrder]_vars

\* right after a split whose halves interleave on another axis: the
\* stacked side holds two or more primitives with different centroids on an
\* axis where the other side's primitive lies between them
OrderPreservingWitness ==
  /\ pc = "for"
  /\ stacksz >= 1
  /\ {node.id, stack[stacksz].id} = {currid - 1, currid}
  /\ currid >= 2
  /\ \E d \in Axes :
       \E j, k \in RangeOf(stack[stacksz]) : \E m \in RangeOf(node) :
         /\ CentroidOn(d, ids[d][j]) < CentroidOn(d, ids[d][m])
         /\ CentroidOn(d, ids[d][m]) < CentroidOn(d, ids[d][k])

\* ------------------------------------------------------------------ C17
\* the sweep of segment s on axis a proposes the leaf
ProposesLeaf(a, s) ==
  /\ \A j \in RangeOf(s) : istri[ids[0][j]]
  /\ SizeOf(s) <= maxprimitivenum
  /\ LeafNoDearer(a, s)

\* the cost of the candidate the sweep of segment s on axis a returns: the
\* bare cost of the best cut when the range holds a sub-intersector, else
\* the weighted one, or the leaf's when the sweep proposes the leaf
CandidateOf(s, harea, bare) ==
  IF \E j \in RangeOf(s) : ~istri[ids[0][j]] THEN bare
  ELSE IF SizeOf(s) <= maxprimitivenum /\ NoDearer(SizeOf(s), harea, bare)
       THEN sahintersectioncost * SizeOf(s) * harea
  ELSE sahintersectioncost * bare + sahtraversalcost * harea

CandidateCost(a, s) ==
  CandidateOf(s, halfarea(BoxOf(IdsIn(0, s))), MinSplitCost(a, s))

\* the lowest axis whose candidate has the least cost
LowestOfLeast(c) ==
  CHOOSE a \in Axes :
    /\ \A b \in Axes : c[a + 1] <= c[b + 1]
    /\ \A b \in Axes : c[b + 1] = c[a + 1] => a <= b

BestAxis(s) ==
  LowestOfLeast(<<CandidateCost(0, s), CandidateCost(1, s),
                  CandidateCost(2, s)>>)

\* the last position of least cost of segment s on axis a
BestPosition(a, s) == MaxOf(MinCostPositions(a, s))

\* the step takes the candidate of axis a: a leaf when it is the leaf,
\* otherwise an inner node of axis a, cut at the last position of least
\* cost of that axis
TakesCandidate(a) ==
  IF ProposesLeaf(a, node)
  THEN root'[node.id].flag = "TRILEAF"
  ELSE /\ root'[node.id].flag = "NONLEAF"
       /\ root'[node.id].axis = a
       /\ HandedOn(currid + 1).last = BestPosition(a, node)
       /\ {ids'[0][j] : j \in RangeOf(HandedOn(currid + 1))}
            = {ids[a][j] : j \in node.first..BestPosition(a, node)}

\* C17: the driver takes the candidate of least cost among the sweeps on
\* axes 0, 1, 2, the one of the lowest axis when several cost the same: a
\* leaf when that candidate is the leaf, otherwise an inner node of that
\* axis, cut where that sweep cuts
BestOfThree ==
  [][(pc = "for" /\ SizeOf(node) >= 2) => TakesCandidate(BestAxis(node))]_vars

\* a range of coincident triangles, where every axis costs the same, has
\* been split on axis 0, and another range has been split on axis 2
BestOfThreeWitness ==
  /\ \E d \in NodeIds :
       /\ IsInner(d)
       /\ root[d].axis = 0
       /\ \A j, k \in RangeOf(seg[d]) : boxes[ids[0][j]] = boxes[ids[0][k]]
  /\ \E d \in NodeIds : IsInner(d) /\ root[d].axis = 2

\* ------------------------------------------------------------------ C18
\* C18: boxes are inflated only once the work stack is empty, after the
\* last sweep and the last node, and then the box of every written node is
\* inflated exactly once: the slots 0..2n-2 of growboxes include every
\* written node id
InflationLast ==
  /\ \A d \in NodeIds :
       root[d].grown > 0 => (pc = "done" /\ stacksz = 0 /\ stack = <<>>)
  /\ Built =>
       \A d \in NodeIds :
         Written(d) => (root[d].grown = 1 /\ d <= 2 * n - 2)

\* a finished tree over three or more primitives that fills the slots up
\* to 2n-2, all inflated once, the slot after them left alone
InflationLastWitness ==
  /\ Built
  /\ n >= 3
  /\ Written(2 * n - 2)
  /\ \A d \in 0..(2 * n - 2) : root[d].grown = 1
  /\ root[2 * n - 1].grown = 0

\* ------------------------------------------------------------------ C19
\* the split step cuts behind a position first <= j < last: both sides are
\* non-empty and smaller than the range they come from
ProperSplit ==
  currid' = currid + 2 =>
    /\ node.first <= HandedOn(currid + 1).last
    /\ HandedOn(currid + 1).last < node.last
    /\ \A side \in {node', stack'[stacksz']} :
         /\ SizeOf(side) >= 1
         /\ SizeOf(side) < SizeOf(node)
         /\ node.first <= side.first
         /\ side.last <= node.last

RECURSIVE NodesToWrite(_)
\* an upper bound of the nodes the first k stack entries still stand for: a
\* range of m primitives becomes at most 2m-1 nodes
NodesToWrite(k) ==
  IF k = 0 THEN 0 ELSE NodesToWrite(k - 1) + 2 * SizeOf(stack[k]) - 1

\* the steps compile() has at most left: two for every node still to be
\* written, one more for the pop or the return that is due
StepsLeft ==
  IF ~Building THEN 0
  ELSE 2 * NodesToWrite(stacksz)
         + (IF pc = "for" THEN 2 * (2 * SizeOf(node) - 1) ELSE 1)

\* a step of the build stays in the build or ends it, and leaves fewer
\* steps to take
Progress ==
  Building =>
    /\ Building' \/ Built'
    /\ StepsLeft' < StepsLeft
    /\ StepsLeft' >= 0

\* the build always has a next step: a pop or the return between two
\* segments, a leaf or a split on a non-empty segment
NotStuck ==
  Building =>
    /\ StepsLeft <= 4 * n - 1
    /\ pc = "for" => node.first <= node.last
    /\ \A k \in 1..stacksz : stack[k].first <= stack[k].last

\* C19: every split cuts at a position first <= j < last, so both
\* sub-ranges are non-empty and smaller than their parent; every step of the
\* build leaves fewer steps to take, of at most 4n-1, so the build of one or
\* more primitives empties the work stack and returns
Termination == []NotStuck /\ [][ProperSplit /\ Progress]_vars

\* a build of five or more primitives has returned after two or more splits
TerminationWitness ==
  /\ Built
  /\ stacksz = 0
  /\ n >= 5
  /\ Cardinality({d \in NodeIds : IsInner(d)}) >= 2

\* ------------------------------------------------------------------ C20
\* the node ids written so far, and those handed to a segment that still
\* waits on the stack or is being worked on
WrittenIds == {d \in NodeIds : Written(d)}
PendingIds == {s.id : s \in LiveSegments}

\* every id handed out so far, 0..currid, is either written or pending, no
\* two segments hold the same id, nodenum counts the written ones, and all
\* lie inside the 2n+1 allocated slots; in the finished array the written
\* ids are 0..nodenum-1 and currid + 1 = nodenum
SlotsInUse ==
  (Building \/ Built) =>
    /\ DOMAIN root = 0..(2 * n)
    /\ WrittenIds \cup PendingIds = 0..currid
    /\ WrittenIds \cap PendingIds = {}
    /\ Cardinality(PendingIds) = stacksz + (IF pc = "for" THEN 1 ELSE 0)
    /\ nodenum = Cardinality(WrittenIds)
    /\ currid < 2 * n + 1
    /\ Built =>
         /\ WrittenIds = 0..(nodenum - 1)
         /\ PendingIds = {}
         /\ currid + 1 = nodenum

\* a step of the build never touches a written slot, and writes at most
\* the one slot of the segment it works on, as an inner node or as a leaf
WrittenOnce ==
  Building =>
    \A d \in NodeIds :
      /\ Written(d) =>
           /\ root'[d].flag = root[d].flag
           /\ root'[d].box = root[d].box
           /\ root'[d].offset = root[d].offset
           /\ root'[d].ptr = root[d].ptr
      /\ root'[d].flag # root[d].flag =>
           /\ pc = "for"
           /\ d = node.id
           /\ nodenum' = nodenum + 1
           /\ seg'[d].first = node.first
           /\ seg'[d].last = node.last

\* C20: every node id handed to a segment is written exactly once, by
\* makenode or by makeleaf; the finished array has the written ids
\* 0..nodenum-1 without gaps, all below the 2n+1 allocated slots, and
\* currid + 1 = nodenum
SlotDiscipline == []SlotsInUse /\ [][WrittenOnce]_vars

\* during a build four or more nodes are written, a lower id still waiting
\* on the stack
SlotDisciplineWitness ==
  /\ pc = "while"
  /\ stacksz >= 1
  /\ nodenum >= 4
  /\ \E d \in PendingIds : \E e \in WrittenIds : d < e
====
